---- MODULE Spec2Model ----
(***************************************************************************)
(* Model of jobspy/indeed/__init__.py: the Indeed scraper.                 *)
(*                                                                         *)
(* One Indeed instance (a session) is constructed with a proxy             *)
(* configuration and is then asked to scrape, possibly several times.      *)
(* The provider (the GraphQL API and the job-view pages) is the            *)
(* environment: every response is chosen nondeterministically.  The        *)
(* program reads the records of a response one at a time and never looks   *)
(* ahead, so the provider's choice of a record is taken when the loop      *)
(* reaches it; the response fixes the number of records and the cursor.    *)
(* A raw record carries every key the query asks for, with null for a     *)
(* missing structure: its employer is named, unnamed (an object without a  *)
(* name) or null, its location present or null.  A null location makes     *)
(* job.get("location", {}).get("city") fault while the JobPost is built,   *)
(* after the URL went into seen_urls and after the company-name lookup.    *)
(* None is written "None"; a raised exception leaves pc = "raised".        *)
(***************************************************************************)
EXTENDS Integers, Sequences, FiniteSets, TLC

\* ------------------------------------------------------------------ bounds
MaxKey == 2          \* job keys the provider can return: 1..MaxKey
MaxPageLen == 2      \* records in one API response
MaxWanted == 2       \* results_wanted ranges over 1..MaxWanted
MaxOffset == 1       \* offset ranges over 0..MaxOffset
MaxScrapes == 2      \* scrape calls made on the one instance
MaxBlocks == 1       \* JSON-LD script blocks in one job-view page
MaxHours == 2        \* hours_old ranges over None and 0..MaxHours

Keys == 1..MaxKey
Domains == {"www", "uk"}
Cursors == {"None", "", "c1"}
ProxyConfigs == {"None", "list", "emptylist"}
Employers == {"named", "unnamed", "null"}
Locations == {"present", "null"}
Blocks == {"unparsable", "noorg", "emptyname", "name"}
Outcomes == {"ok", "notok", "exception"}

RawJobs == [key : Keys, employer : Employers, location : Locations]

RECURSIVE SeqsUpTo(_, _)
SeqsUpTo(S, n) ==
    IF n = 0 THEN {<<>>}
    ELSE LET shorter == SeqsUpTo(S, n - 1)
         IN  shorter \cup {Append(s, x) : s \in {t \in shorter : Len(t) = n - 1}, x \in S}

Texts == SeqsUpTo(Blocks, MaxBlocks)

NoJob == [key |-> 0, employer |-> "null", location |-> "null"]
NoCall == [url |-> <<"None", 0>>, first |-> FALSE, named |-> FALSE,
           lookup |-> "notcalled", outcome |-> "none"]
Request(tier, url) == [tier |-> tier, url |-> url, outcome |-> "pending", text |-> <<>>]
Answered(req, outcome, text) ==
    [req EXCEPT !.outcome = outcome, !.text = IF outcome = "ok" THEN text ELSE <<>>]
Missing == {"results", "nextCursor"}
NoPage == [ok |-> TRUE, body |-> "none", seen |-> 0, results |-> 0, done |-> 0,
           new |-> 0, next |-> "None"]

\* ------------------------------------------------------------------- state
VARIABLES
    proxies,        \* the constructor's proxies argument (its kind)
    seen_urls,      \* self.seen_urls
    scraper_input,  \* self.scraper_input: results_wanted, offset, country domain
    base_url,       \* self.base_url
    job_list,       \* scrape's local job_list
    cursor,         \* scrape's local cursor
    page,           \* scrape's local page
    pc,             \* where the single thread of control is
    jobs,           \* _scrape_page: how many raw records are still to normalize
    page_list,      \* _scrape_page's local job_list
    new_cursor,     \* _scrape_page's local new_cursor
    job,            \* _process_job: the record whose company name is being fetched
    result,         \* the list the last scrape returned
    scrapes,        \* scrape calls made so far
    produced,       \* history: how many postings _process_job returned, by job URL
    arrived,        \* history: the postings of the current scrape, in order
    presented,      \* history: every job URL handed to _process_job
    last_call,      \* history: the last _process_job call
    api_log,        \* history: cursor clause of each API request of the scrape
    last_page,      \* history: what the last API response of the scrape gave
    fetch_log,      \* history: the fallback requests of the last _process_job call
    lookups,        \* history: _fetch_company_name calls in the scrape
    accepted        \* history: records accepted in the scrape, by employer name

vars == <<proxies, seen_urls, scraper_input, base_url, job_list, cursor, page, pc,
          jobs, page_list, new_cursor, job, result, scrapes, produced, arrived,
          presented, last_call, api_log, last_page, fetch_log, lookups, accepted>>

config == <<proxies, scraper_input, base_url, scrapes>>
hist == <<produced, arrived, presented, last_call, api_log, last_page, fetch_log,
          lookups, accepted>>

\* ----------------------------------------------------------------- helpers
Min(a, b) == IF a < b THEN a ELSE b

\* Python's s[a:b] for 0 <= a <= b
PySlice(s, a, b) == SubSeq(s, a + 1, Min(b, Len(s)))

\* Python truthiness of a str | None
Truthy(s) == s \notin {"None", ""}

\* __init__: self._fallback_proxies is set only for a non-empty str or list
FallbackProxies(p) == p \in {"str", "list"}

\* every job URL the provider's keys can give
AllUrls == Domains \X Keys

\* _process_job: job_url = f'{self.base_url}/viewjob?jk={job["key"]}'
JobUrl(base, key) == <<base, key>>

\* a dedup gate that remembers only the postings of the current page
AlreadySeenInPage(url) == \E i \in 1..Len(page_list) : page_list[i].job_url = url

\* _process_job: the dedup gate
AlreadySeen(url) == url \in seen_urls

\* _process_job: company_name taken from the employer object
EmployerName(rec) == IF rec.employer = "named" THEN "employer" ELSE "None"

\* a lookup only for a null employer object, not for an empty name
NeedsLookupNullOnly(rec) == rec.employer = "null"

\* _process_job: if not company_name
NeedsLookup(rec) == ~Truthy(EmployerName(rec))

\* _process_job: job.get("location", {}).get("city") faults on a null location
BuildFaults(rec) == rec.location = "null"

\* _process_job: the JobPost built from the record
JobPost(rec, url, company) ==
    [job_url |-> url, company_name |-> company]

\* _fetch_company_name: the first JSON-LD block that parses and has a name
RECURSIVE ParseCompanyName(_)
ParseCompanyName(text) ==
    IF text = <<>> THEN "None"
    ELSE IF Head(text) = "name" THEN "jsonld"
    ELSE ParseCompanyName(Tail(text))

\* a lookup without the outer try/except: a transport exception escapes
CompanyNameFromUncaught(outcome, text) ==
    IF outcome = "ok" THEN ParseCompanyName(text)
    ELSE IF outcome = "exception" THEN "raise" ELSE "None"

\* _fetch_company_name lines 233-252: what the lookup returns for the last response;
\* a non-ok status gives None and the except clause turns any exception into None
CompanyNameFrom(outcome, text) ==
    IF outcome = "ok" THEN ParseCompanyName(text) ELSE "None"

\* a retry on any failure of Tier B, a transport exception included
EscalateOnAnyFailure(outcome) == outcome # "ok" /\ FallbackProxies(proxies)

\* a retry that does not look at the proxy configuration
EscalateWithoutProxyCheck(outcome) == outcome = "notok"

\* _fetch_company_name: retry with the proxy
EscalateToProxy(outcome) == outcome = "notok" /\ FallbackProxies(proxies)

\* a request that never carries a cursor
CursorClauseNever(c) == ""

\* _scrape_page: cursor=f'cursor: "{cursor}"' if cursor else ""
CursorClause(c) == IF Truthy(c) THEN c ELSE ""

\* a loop that also stops when the last response gave no cursor
LoopContinuesWhileCursor ==
    /\ Cardinality(seen_urls) < scraper_input.results_wanted + scraper_input.offset
    /\ (api_log = <<>> \/ Truthy(cursor))

\* a loop bounded by the postings of this scrape, not by seen_urls
LoopContinuesOnJobList ==
    Len(job_list) < scraper_input.results_wanted + scraper_input.offset

\* scrape: the while condition
LoopContinues ==
    Cardinality(seen_urls) < scraper_input.results_wanted + scraper_input.offset

\* a loop that stops on an empty cursor instead of an empty page
PageYieldsNothingByCursor(list) == ~Truthy(new_cursor)

\* a loop that no page ends
PageNeverYieldsNothing(list) == FALSE

\* scrape: if not jobs
PageYieldsNothing(list) == list = <<>>

\* a page put in front of the accumulated postings
AccumulateFront(list, more) == more \o list

\* scrape: job_list += jobs
Accumulate(list, more) == list \o more

\* a slice that drops the offset but keeps everything after it
ReturnSliceFromOffset(list) == PySlice(list, scraper_input.offset, Len(list))

\* scrape: the JobResponse slice
ReturnSlice(list) ==
    PySlice(list, scraper_input.offset,
            scraper_input.offset + scraper_input.results_wanted)

\* -------------------------------------------------------------------- Init
Init ==
    /\ proxies \in ProxyConfigs
    /\ seen_urls = {}
    /\ scraper_input = [results_wanted |-> 1, offset |-> 0, country |-> "www"]
    /\ base_url = "None"
    /\ job_list = <<>>
    /\ cursor = "None"
    /\ page = 1
    /\ pc = "idle"
    /\ jobs = 0
    /\ page_list = <<>>
    /\ new_cursor = "None"
    /\ job = NoJob
    /\ result = <<>>
    /\ scrapes = 0
    /\ produced = [u \in AllUrls |-> 0]
    /\ arrived = <<>>
    /\ presented = {}
    /\ last_call = NoCall
    /\ api_log = <<>>
    /\ last_page = NoPage
    /\ fetch_log = <<>>
    /\ lookups = 0
    /\ accepted = [named |-> 0, unnamed |-> 0]

\* ----------------------------------------------------------------- actions
\* scrape, lines 73-81: a caller starts a scrape on the instance
Scrape(r, o, d) ==
    /\ pc \in {"idle", "returned", "raised"}
    /\ scrapes < MaxScrapes
    /\ scrapes' = scrapes + 1
    /\ scraper_input' = [results_wanted |-> r, offset |-> o, country |-> d]
    /\ base_url' = d
    /\ job_list' = <<>>
    /\ page' = 1
    /\ cursor' = "None"
    /\ pc' = "loop"
    /\ arrived' = <<>>
    /\ api_log' = <<>>
    /\ last_page' = NoPage
    /\ lookups' = 0
    /\ accepted' = [named |-> 0, unnamed |-> 0]
    /\ result' = <<>>
    /\ last_call' = NoCall
    /\ fetch_log' = <<>>
    /\ UNCHANGED <<proxies, seen_urls, jobs, page_list, new_cursor, job, produced,
                   presented>>

\* scrape line 83 true, _scrape_page lines 106-136: the API request is sent
ScrapePageRequest ==
    /\ pc = "loop"
    /\ LoopContinues
    /\ pc' = "api"
    /\ jobs' = 0
    /\ new_cursor' = "None"
    /\ api_log' = Append(api_log, CursorClause(cursor))
    /\ UNCHANGED <<config, seen_urls, job_list, cursor, page, page_list, job, result,
                   produced, arrived, presented, last_call, last_page, fetch_log,
                   lookups, accepted>>

\* scrape line 83 false, lines 93-98
ScrapeReturn ==
    /\ pc = "loop"
    /\ ~LoopContinues
    /\ result' = ReturnSlice(job_list)
    /\ pc' = "returned"
    /\ UNCHANGED <<config, seen_urls, job_list, cursor, page, jobs, page_list,
                   new_cursor, job, hist>>

\* a non-ok response raised as an error (raise_for_status)
ApiNotOkRaises ==
    /\ pc = "api"
    /\ pc' = "raised"
    /\ last_page' = [ok |-> FALSE, body |-> "unread", seen |-> Cardinality(seen_urls),
                    results |-> 0, done |-> 0, new |-> 0,
                    next |-> new_cursor]
    /\ UNCHANGED <<config, seen_urls, job_list, cursor, page, jobs, page_list,
                   new_cursor, job, result, produced, arrived, presented, last_call,
                   api_log, fetch_log, lookups, accepted>>

\* _scrape_page lines 137-141, then scrape lines 87-90 and 93-98
ApiNotOk ==
    /\ pc = "api"
    /\ cursor' = new_cursor
    /\ last_page' = [ok |-> FALSE, body |-> "unread", seen |-> Cardinality(seen_urls),
                    results |-> 0, done |-> 0, new |-> 0,
                    next |-> new_cursor]
    /\ page_list' = <<>>
    /\ IF PageYieldsNothing(<<>>)
       THEN /\ result' = ReturnSlice(job_list)
            /\ pc' = "returned"
            /\ UNCHANGED <<job_list, page>>
       ELSE /\ job_list' = Accumulate(job_list, <<>>)
            /\ page' = page + 1
            /\ pc' = "loop"
            /\ UNCHANGED result
    /\ UNCHANGED <<config, seen_urls, jobs, new_cursor, job, produced, arrived,
                   presented, last_call, api_log, fetch_log, lookups, accepted>>

\* an ok response without the expected keys taken for an empty page
ApiMalformedAsEmptyPage(missing) ==
    /\ pc = "api"
    /\ last_page' = [ok |-> TRUE, body |-> missing, seen |-> Cardinality(seen_urls),
                    results |-> 0, done |-> 0, new |-> 0,
                    next |-> "None"]
    /\ result' = ReturnSlice(job_list)
    /\ pc' = "returned"
    /\ UNCHANGED <<config, seen_urls, job_list, cursor, page, jobs, page_list,
                   new_cursor, job, produced, arrived, presented, last_call,
                   api_log, fetch_log, lookups, accepted>>

\* _scrape_page lines 142-144: an ok response whose body lacks
\* data.jobSearch.results or data.jobSearch.pageInfo.nextCursor; the subscript
\* raises, nothing catches it, scrape raises
ApiMalformed(missing) ==
    /\ pc = "api"
    /\ last_page' = [ok |-> TRUE, body |-> missing, seen |-> Cardinality(seen_urls),
                    results |-> 0, done |-> 0, new |-> 0,
                    next |-> "None"]
    /\ pc' = "raised"
    /\ UNCHANGED <<config, seen_urls, job_list, cursor, page, jobs, page_list,
                   new_cursor, job, result, produced, arrived, presented, last_call,
                   api_log, fetch_log, lookups, accepted>>

\* session.post raises (line 130): nothing catches it, scrape raises
ApiRaises ==
    /\ pc = "api"
    /\ pc' = "raised"
    /\ UNCHANGED <<config, seen_urls, job_list, cursor, page, jobs, page_list,
                   new_cursor, job, result, hist>>

\* _scrape_page lines 142-146: an ok response with its results and nextCursor
ApiOk(n, next) ==
    /\ pc = "api"
    /\ jobs' = n
    /\ new_cursor' = next
    /\ page_list' = <<>>
    /\ pc' = "records"
    /\ last_page' = [ok |-> TRUE, body |-> "complete", seen |-> Cardinality(seen_urls),
                    results |-> n, done |-> 0, new |-> 0,
                    next |-> next]
    /\ UNCHANGED <<config, seen_urls, job_list, cursor, page, job, result, produced,
                   arrived, presented, last_call, api_log, fetch_log, lookups,
                   accepted>>

\* _process_job lines 277-322 and _scrape_page lines 149-150: the posting is built
\* and appended, or building it faults and the fault leaves scrape; an exception
\* that left _fetch_company_name would leave _process_job and scrape as well
FinishJob(rec, call, company) ==
    /\ job' = NoJob
    /\ IF company = "raise" \/ BuildFaults(rec)
       THEN /\ pc' = "raised"
            /\ last_call' = [call EXCEPT !.outcome = "raised"]
            /\ UNCHANGED <<jobs, page_list, produced, arrived, last_page>>
       ELSE /\ pc' = "records"
            /\ last_call' = [call EXCEPT !.outcome = "posting"]
            /\ jobs' = jobs - 1
            /\ page_list' = Append(page_list, JobPost(rec, call.url, company))
            /\ produced' = [produced EXCEPT ![call.url] = @ + 1]
            /\ arrived' = Append(arrived, JobPost(rec, call.url, company))
            /\ last_page' = [last_page EXCEPT !.new = @ + 1, !.done = @ + 1]

\* _scrape_page lines 147-148 and _process_job lines 260-276 for the next record
ProcessJob(rec) ==
    /\ pc = "records"
    /\ jobs > 0
    /\ LET url == JobUrl(base_url, rec.key)
           call == [url |-> url, first |-> url \notin presented,
                    named |-> rec.employer = "named", lookup |-> "notcalled",
                    outcome |-> "pending"]
       IN  /\ presented' = presented \cup {url}
           /\ IF AlreadySeen(url)
              THEN /\ jobs' = jobs - 1
                   /\ last_call' = [call EXCEPT !.outcome = "skipped"]
                   /\ fetch_log' = <<>>
                   /\ last_page' = [last_page EXCEPT !.done = @ + 1]
                   /\ UNCHANGED <<seen_urls, pc, page_list, produced, arrived,
                                  job, lookups, accepted>>
              ELSE /\ seen_urls' = seen_urls \cup {url}
                   /\ accepted' = IF rec.employer = "named"
                                  THEN [accepted EXCEPT !.named = @ + 1]
                                  ELSE [accepted EXCEPT !.unnamed = @ + 1]
                   /\ IF NeedsLookup(rec)
                      THEN /\ job' = rec
                           /\ pc' = "tierB"
                           /\ fetch_log' = <<Request("B", url)>>
                           /\ lookups' = lookups + 1
                           /\ last_call' = [call EXCEPT !.lookup = "pending"]
                           /\ UNCHANGED <<jobs, page_list, produced, arrived,
                                          last_page>>
                      ELSE /\ FinishJob(rec, call, EmployerName(rec))
                           /\ fetch_log' = <<>>
                           /\ UNCHANGED lookups
    /\ UNCHANGED <<config, job_list, cursor, page, new_cursor, result, api_log>>

\* _fetch_company_name lines 225-252: the Tier B response (or its exception)
TierBResponse(outcome, text) ==
    /\ pc = "tierB"
    /\ IF EscalateToProxy(outcome)
       THEN /\ pc' = "tierC"
            /\ fetch_log' = <<Answered(fetch_log[1], outcome, text),
                              Request("C", last_call.url)>>
            /\ UNCHANGED <<jobs, page_list, produced, arrived, last_call, last_page,
                           job>>
       ELSE /\ fetch_log' = <<Answered(fetch_log[1], outcome, text)>>
            /\ FinishJob(job,
                         [last_call EXCEPT !.lookup = CompanyNameFrom(outcome, text)],
                         CompanyNameFrom(outcome, text))
    /\ UNCHANGED <<config, seen_urls, job_list, cursor, page, new_cursor, result,
                   presented, api_log, lookups, accepted>>

\* _fetch_company_name lines 229-252: the Tier C response (or its exception)
TierCResponse(outcome, text) ==
    /\ pc = "tierC"
    /\ fetch_log' = <<fetch_log[1], Answered(fetch_log[2], outcome, text)>>
    /\ FinishJob(job,
                 [last_call EXCEPT !.lookup = CompanyNameFrom(outcome, text)],
                 CompanyNameFrom(outcome, text))
    /\ UNCHANGED <<config, seen_urls, job_list, cursor, page, new_cursor, result,
                   presented, api_log, lookups, accepted>>

\* a page handed back while records of it are still to normalize
EndPageEarly ==
    /\ pc = "records"
    /\ cursor' = new_cursor
    /\ new_cursor' = "None"
    /\ page_list' = <<>>
    /\ IF PageYieldsNothing(page_list)
       THEN /\ result' = ReturnSlice(job_list)
            /\ pc' = "returned"
            /\ UNCHANGED <<job_list, page>>
       ELSE /\ job_list' = Accumulate(job_list, page_list)
            /\ page' = page + 1
            /\ pc' = "loop"
            /\ UNCHANGED result
    /\ last_call' = NoCall
    /\ fetch_log' = <<>>
    /\ UNCHANGED <<config, seen_urls, jobs, job, produced, arrived, presented,
                   api_log, last_page, lookups, accepted>>

\* _scrape_page line 152, then scrape lines 87-92 or 88-98
EndPage ==
    /\ pc = "records"
    /\ jobs = 0
    /\ cursor' = new_cursor
    /\ new_cursor' = "None"
    /\ page_list' = <<>>
    /\ IF PageYieldsNothing(page_list)
       THEN /\ result' = ReturnSlice(job_list)
            /\ pc' = "returned"
            /\ UNCHANGED <<job_list, page>>
       ELSE /\ job_list' = Accumulate(job_list, page_list)
            /\ page' = page + 1
            /\ pc' = "loop"
            /\ UNCHANGED result
    /\ last_call' = NoCall
    /\ fetch_log' = <<>>
    /\ UNCHANGED <<config, seen_urls, jobs, job, produced, arrived, presented,
                   api_log, last_page, lookups, accepted>>

Next ==
    \/ \E r \in 1..MaxWanted, o \in 0..MaxOffset, d \in Domains : Scrape(r, o, d)
    \/ ScrapePageRequest
    \/ ScrapeReturn
    \/ ApiNotOk
    \/ ApiRaises
    \/ \E missing \in Missing : ApiMalformed(missing)
    \/ \E n \in 0..MaxPageLen, next \in Cursors : ApiOk(n, next)
    \/ \E rec \in RawJobs : ProcessJob(rec)
    \/ \E outcome \in Outcomes, text \in Texts : TierBResponse(outcome, text)
    \/ \E outcome \in Outcomes, text \in Texts : TierCResponse(outcome, text)
    \/ EndPage

Spec == Init /\ [][Next]_vars

\* A scrape call, once made, runs on: the thread is not stopped between two
\* statements and every request it makes is answered (or raises).
Running == pc \notin {"idle", "returned", "raised"}

LiveSpec == Spec /\ WF_vars(Running /\ Next)

\* ----------------------------------------------------------- _build_filters
\* The search criteria _build_filters reads.  An optional integer is <<>> for
\* None and <<h>> for h; flags and the job type are written by name.
HoursOld == {<<>>} \cup {<<h>> : h \in 0..MaxHours}
EasyApply == {"None", "False", "True"}
JobTypes == {"None", "FULL_TIME", "PART_TIME", "CONTRACT", "INTERNSHIP"}
IsRemote == {"False", "True"}
Criteria == [hours_old : HoursOld, easy_apply : EasyApply, job_type : JobTypes,
             is_remote : IsRemote]

\* Python truthiness of an int | None
TruthyInt(h) == h # <<>> /\ h[1] # 0

\* Python truthiness of a bool | None and of a JobType | None
TruthyFlag(f) == f \notin {"None", "False"}

\* _build_filters: job_type_key_mapping
JobTypeKey(t) ==
    CASE t = "FULL_TIME" -> "CF3CP"
      [] t = "PART_TIME" -> "75GKK"
      [] t = "CONTRACT" -> "NJXCK"
      [] t = "INTERNSHIP" -> "VDTG7"

\* the remote code put in front of the job-type code
FilterKeysRemoteFirst(c) ==
    (IF TruthyFlag(c.is_remote) THEN <<"DSQF7">> ELSE <<>>)
    \o (IF TruthyFlag(c.job_type) THEN <<JobTypeKey(c.job_type)>> ELSE <<>>)

\* _build_filters lines 188-194: the keys of the composite filter
FilterKeys(c) ==
    (IF TruthyFlag(c.job_type) THEN <<JobTypeKey(c.job_type)>> ELSE <<>>)
    \o (IF TruthyFlag(c.is_remote) THEN <<"DSQF7">> ELSE <<>>)

\* the fragments _build_filters can emit, by what they hold
EmptyFilter == [form |-> "", field |-> "", start |-> <<>>, keys |-> <<>>]
DateFilter(h) == [form |-> "date", field |-> "dateOnIndeed", start |-> h, keys |-> <<>>]
EasyApplyFilter ==
    [form |-> "keyword", field |-> "indeedApplyScope", start |-> <<>>,
     keys |-> <<"DESKTOP">>]
CompositeFilter(keys) ==
    [form |-> "composite", field |-> "attributes", start |-> <<>>, keys |-> keys]

\* a builder that tests easy_apply before hours_old
BuildFiltersEasyApplyFirst(c) ==
    IF TruthyFlag(c.easy_apply) THEN EasyApplyFilter
    ELSE IF TruthyInt(c.hours_old) THEN DateFilter(c.hours_old)
    ELSE IF TruthyFlag(c.job_type) \/ TruthyFlag(c.is_remote)
         THEN IF FilterKeys(c) # <<>> THEN CompositeFilter(FilterKeys(c)) ELSE EmptyFilter
    ELSE EmptyFilter

\* _build_filters lines 159-210
BuildFilters(c) ==
    IF TruthyInt(c.hours_old) THEN DateFilter(c.hours_old)
    ELSE IF TruthyFlag(c.easy_apply) THEN EasyApplyFilter
    ELSE IF TruthyFlag(c.job_type) \/ TruthyFlag(c.is_remote)
         THEN IF FilterKeys(c) # <<>> THEN CompositeFilter(FilterKeys(c)) ELSE EmptyFilter
    ELSE EmptyFilter

\* A specification of _build_filters alone: scraper_input holds the criteria,
\* result the fragment built from them; everything else stays as constructed.
rest == <<proxies, seen_urls, base_url, job_list, cursor, page, jobs, page_list,
          new_cursor, job, scrapes, produced, arrived, presented, last_call, api_log,
          last_page, fetch_log, lookups, accepted>>

FilterInit ==
    /\ proxies = "None"
    /\ seen_urls = {}
    /\ scraper_input \in Criteria
    /\ base_url = "None"
    /\ job_list = <<>>
    /\ cursor = "None"
    /\ page = 1
    /\ pc = "criteria"
    /\ jobs = 0
    /\ page_list = <<>>
    /\ new_cursor = "None"
    /\ job = NoJob
    /\ result = EmptyFilter
    /\ scrapes = 0
    /\ produced = [u \in AllUrls |-> 0]
    /\ arrived = <<>>
    /\ presented = {}
    /\ last_call = NoCall
    /\ api_log = <<>>
    /\ last_page = NoPage
    /\ fetch_log = <<>>
    /\ lookups = 0
    /\ accepted = [named |-> 0, unnamed |-> 0]

\* _scrape_page line 108: filters = self._build_filters()
BuildFiltersCall ==
    /\ pc = "criteria"
    /\ result' = BuildFilters(scraper_input)
    /\ pc' = "filters"
    /\ UNCHANGED <<scraper_input, rest>>

\* scrape line 73: the next scrape brings its own criteria
NextCriteria(c) ==
    /\ pc = "filters"
    /\ scraper_input' = c
    /\ result' = EmptyFilter
    /\ pc' = "criteria"
    /\ UNCHANGED rest

FilterNext ==
    \/ BuildFiltersCall
    \/ \E c \in Criteria : NextCriteria(c)

FilterSpec == FilterInit /\ [][FilterNext]_vars

\* ------------------------------------------------------------------ claims
Max(a, b) == IF a > b THEN a ELSE b

\* the [o, o+r) slice of list, written out element by element
SliceOf(list, r, o) ==
    [i \in 1..Max(0, Min(r, Len(list) - o)) |-> list[o + i]]

ExpectedResult ==
    SliceOf(arrived, scraper_input.results_wanted, scraper_input.offset)

ProxyConfigured == proxies \notin {"None", "emptylist"}

\* a step that sends an API request after an earlier one of the same scrape
LaterApiRequest == Len(api_log') > Len(api_log) /\ api_log # <<>>

\* C1: within one session no two postings have the same job URL: _process_job
\* returns a posting only the first time a job URL is presented, and skips the
\* record every later time, in the same page or a later one.
C1_NoTwoPostingsShareUrl ==
    /\ \A u \in AllUrls : produced[u] <= 1
    /\ last_call.outcome = "skipped" => ~last_call.first
    /\ last_call.outcome \in {"pending", "posting", "raised"} => last_call.first
    /\ last_call.outcome = "posting" => produced[last_call.url] = 1

C1_Witness ==
    /\ last_call.outcome = "skipped"
    /\ produced[last_call.url] = 1
    /\ Len(api_log) = 2

\* C2: the list scrape returns has at most results_wanted postings and is the
\* [offset, offset + results_wanted) slice of the postings of that scrape in the
\* order the provider's responses gave them.
C2_ReturnIsSlice ==
    pc = "returned" =>
        /\ Len(result) <= scraper_input.results_wanted
        /\ result = ExpectedResult

C2_Witness ==
    /\ pc = "returned"
    /\ scraper_input.offset = 1
    /\ Len(api_log) = 2
    /\ Len(arrived) = 2
    /\ result = <<arrived[2]>>

\* C3: a page that yields no new posting ends the scrape, whatever cursor came
\* with it: no API request follows it and the postings of the earlier pages are
\* returned, sliced.
C3_StopsOnZeroNew ==
    [][ /\ (pc = "records" /\ jobs = 0 /\ last_page.new = 0)
            => (pc' = "returned" /\ api_log' = api_log /\ result' = ExpectedResult)
        /\ LaterApiRequest => last_page.new > 0 ]_vars

C3_Witness ==
    /\ pc = "returned"
    /\ last_page.ok
    /\ last_page.results > 0
    /\ last_page.new = 0
    /\ last_page.next = "c1"
    /\ Len(api_log) = 2
    /\ Len(result) >= 1

\* C4: a non-ok API response gives an empty job list and a None cursor, is not
\* retried, no tier of the fallback is tried, no API request follows it and scrape
\* returns, without raising, the slice of the postings of the earlier pages.
C4_NotOkEndsScrape ==
    [][ /\ (pc = "api" /\ pc' # "api" /\ ~last_page'.ok)
            => /\ pc' = "returned"
               /\ cursor' = "None"
               /\ last_page'.new = 0
               /\ result' = ExpectedResult
               /\ UNCHANGED <<api_log, fetch_log, seen_urls, arrived>>
        /\ LaterApiRequest => last_page.ok ]_vars

C4_Witness ==
    /\ pc = "returned"
    /\ ~last_page.ok
    /\ Len(api_log) = 2
    /\ Len(result) >= 1

\* C5: in the company-name fallback the first request is Tier B; when Tier B
\* answers non-ok and a proxy is configured the next request is the Tier C GET of
\* the same job URL and it is the last; without a proxy the lookup gives None
\* with no second request; Tier C is requested only after a non-ok Tier B.
C5_TierOrder ==
    /\ Len(fetch_log) <= 2
    /\ fetch_log # <<>> => fetch_log[1].tier = "B"
    /\ Len(fetch_log) = 2
          => /\ fetch_log[2].tier = "C"
             /\ fetch_log[2].url = fetch_log[1].url
             /\ fetch_log[1].outcome = "notok"
             /\ ProxyConfigured
    /\ (fetch_log # <<>> /\ fetch_log[1].outcome = "notok")
          => IF ProxyConfigured
             THEN Len(fetch_log) = 2
             ELSE Len(fetch_log) = 1 /\ last_call.lookup = "None"

C5_Witness ==
    /\ Len(fetch_log) = 2
    /\ fetch_log[1].outcome = "notok"
    /\ fetch_log[2].outcome = "notok"
    /\ last_call.lookup = "None"


LastTier == fetch_log[Len(fetch_log)]

HasName(text) == \E i \in 1..Len(text) : text[i] = "name"

RECURSIVE SumOver(_, _)
SumOver(f, S) ==
    IF S = {} THEN 0
    ELSE LET x == CHOOSE y \in S : TRUE IN f[x] + SumOver(f, S \ {x})

\* C6: as stated: a transport exception of the Tier B request, with a proxy
\* configured, is followed by the Tier C request.
C6_Original ==
    (fetch_log # <<>> /\ fetch_log[1].outcome = "exception" /\ ProxyConfigured)
        => Len(fetch_log) = 2

\* C6, amended: only a non-ok Tier B response escalates to Tier C; when the Tier B
\* request raises a transport exception no Tier C request is made, with or
\* without a proxy, and the lookup gives None.
C6_EscalationOnlyOnNotOk ==
    /\ (fetch_log # <<>> /\ fetch_log[1].outcome = "exception")
          => (Len(fetch_log) = 1 /\ last_call.lookup = "None")
    /\ (fetch_log # <<>> /\ fetch_log[1].outcome # "pending")
          => (Len(fetch_log) = 2 <=> (fetch_log[1].outcome = "notok" /\ ProxyConfigured))

C6_Witness ==
    /\ fetch_log # <<>>
    /\ fetch_log[1].outcome = "exception"
    /\ ProxyConfigured
    /\ last_call.lookup = "None"
    /\ last_call.outcome = "posting"

\* C7: the company-name lookup never raises: a non-ok last tier, a transport
\* exception, no JSON-LD block, an unparsable block or a block without a name all
\* give None; the lookup's result never stops the scrape (the record's posting is
\* built with that company name and the page's next record is reached, the only
\* raise being the build fault of a null location, whatever the lookup gave).
C7_FallbackNeverRaises ==
    /\ [](last_call.lookup \notin {"notcalled", "pending"}
            => /\ last_call.lookup \in {"None", "jsonld"}
               /\ (LastTier.outcome # "ok" \/ ~HasName(LastTier.text))
                     => last_call.lookup = "None")
    /\ [][(pc \in {"tierB", "tierC"} /\ pc' \notin {"tierB", "tierC"})
            => IF job.location = "null"
               THEN pc' = "raised"
               ELSE /\ pc' = "records"
                    /\ jobs' = jobs - 1
                    /\ arrived' = Append(arrived, [job_url |-> last_call.url,
                                                   company_name |-> last_call'.lookup])
                    /\ produced'[last_call.url] = produced[last_call.url] + 1]_vars

C7_Witness ==
    /\ fetch_log # <<>>
    /\ LastTier.outcome = "ok"
    /\ LastTier.text = <<"unparsable">>
    /\ last_call.lookup = "None"
    /\ last_call.outcome = "posting"
    /\ arrived[Len(arrived)].company_name = "None"
    /\ pc = "records"
    /\ jobs = 1

\* C8: between two _process_job calls the number of URLs in seen_urls equals the
\* number of postings produced in the session, a faulting record included.
C8_SeenEqualsPostings ==
    pc \notin {"tierB", "tierC"} => Cardinality(seen_urls) = SumOver(produced, AllUrls)

\* C9: as stated: no API request follows a non-empty page that came with
\* nextCursor = None.
C9_Original ==
    [][LaterApiRequest
         => ~(last_page.ok /\ last_page.results > 0 /\ last_page.next = "None")]_vars

\* C9, amended: nextCursor = None does not end the pagination: a page that gave
\* a new posting sends scrape back to the loop test whatever the cursor, and
\* after nextCursor = None the next step is an API request without a cursor when
\* fewer than results_wanted + offset URLs are in seen_urls, and the return
\* otherwise.
C9_NoneCursorDoesNotStop ==
    [][ /\ (pc = "records" /\ jobs = 0 /\ last_page.new > 0) => pc' = "loop"
        /\ (pc = "loop" /\ api_log # <<>> /\ last_page.next = "None")
             => IF Cardinality(seen_urls)
                     < scraper_input.results_wanted + scraper_input.offset
                THEN pc' = "api" /\ api_log' = Append(api_log, "")
                ELSE pc' = "returned" /\ api_log' = api_log ]_vars

C9_Witness ==
    /\ pc = "api"
    /\ Len(api_log) = 2
    /\ api_log[2] = ""
    /\ last_page.ok
    /\ last_page.results = last_page.new
    /\ last_page.new > 0
    /\ last_page.next = "None"

\* C10: the company-name lookup is called once for each accepted record whose
\* employer name is absent or empty, and never for a record with an employer name
\* or a skipped record; in a scrape the lookups number the accepted records
\* without an employer name.
C10_LookupOncePerUnnamed ==
    /\ lookups = accepted.unnamed
    /\ last_call.lookup # "notcalled"
          => (~last_call.named /\ last_call.first /\ last_call.outcome # "skipped")
    /\ (last_call.outcome \in {"pending", "posting", "raised"} /\ ~last_call.named)
          => last_call.lookup # "notcalled"
    /\ Cardinality({i \in 1..Len(fetch_log) : fetch_log[i].tier = "B"})
          = IF last_call.lookup = "notcalled" THEN 0 ELSE 1

C10_Witness ==
    /\ lookups = 1
    /\ accepted = [named |-> 1, unnamed |-> 1]
    /\ last_call.outcome = "skipped"
    /\ ~last_call.named
    /\ last_call.lookup = "notcalled"

\* C11: whatever easy_apply, job_type and is_remote are, when hours_old is set
\* (the code's test: not None and not 0) the fragment is the date filter on
\* dateOnIndeed with that number of hours, and holds neither the indeedApplyScope
\* form nor the attributes form.
C11_HoursOldWins ==
    (pc = "filters" /\ TruthyInt(scraper_input.hours_old))
        => /\ result.form = "date"
           /\ result.field = "dateOnIndeed"
           /\ result.start = scraper_input.hours_old
           /\ result.field \notin {"indeedApplyScope", "attributes"}
           /\ result.keys = <<>>

C11_Witness ==
    /\ pc = "filters"
    /\ scraper_input.hours_old = <<1>>
    /\ scraper_input.easy_apply = "True"
    /\ scraper_input.job_type = "CONTRACT"
    /\ scraper_input.is_remote = "True"
    /\ result.form = "date"

\* C12: no _process_job call faults on a record whose nested optional structure
\* (employer, location) is null: every accepted record gets its posting.
C12_NormalizingNeverFaults ==
    last_call.outcome # "raised"

\* C13: an ok API response whose body lacks results or nextCursor makes scrape
\* raise: nothing is returned, no record of it is processed and no request
\* follows, on the first page and on a later page whose earlier pages gave postings.
C13_MalformedBodyRaises ==
    /\ [](last_page.body \in Missing
            => (pc = "raised" /\ last_page.ok /\ result = <<>>))
    /\ [][(last_page.body \in Missing \/ last_page'.body \in Missing)
            => \/ /\ pc = "api" /\ pc' = "raised"
                  /\ UNCHANGED <<seen_urls, job_list, arrived, api_log, fetch_log,
                                 presented, result>>
               \/ /\ pc = "raised" /\ pc' = "loop"
                  /\ scrapes' = scrapes + 1]_vars

C13_Witness ==
    /\ pc = "raised"
    /\ last_page.body = "nextCursor"
    /\ Len(api_log) = 2
    /\ Len(arrived) >= 1
    /\ result = <<>>

\* C14: in every scrape the first API request carries no cursor and every later
\* one carries the nextCursor of the API response just before it (no cursor
\* clause when that nextCursor is None or empty); the cursor changes only when
\* scrape starts (to None) and when a page ends (to that page's nextCursor),
\* never while records are normalized or company names are looked up.
C14_CursorThreading ==
    /\ []((pc = "loop" /\ api_log = <<>>) => cursor = "None")
    /\ []((pc = "loop" /\ api_log # <<>>) => cursor = last_page.next)
    /\ [][ /\ Len(api_log') > Len(api_log)
               => api_log' = Append(api_log,
                                    IF api_log = <<>> \/ last_page.next \in {"None", ""}
                                    THEN "" ELSE last_page.next)
           /\ cursor' # cursor
               => \/ pc \in {"idle", "returned", "raised"} /\ pc' = "loop"
                     /\ cursor' = "None"
                  \/ /\ pc \in {"api", "records"} /\ pc' \in {"loop", "returned"}
                     /\ cursor' = last_page'.next
                     /\ jobs = 0 ]_vars

C14_Witness ==
    /\ pc = "api"
    /\ api_log = <<"", "c1", "">>
    /\ cursor = "None"
    /\ scrapes = 2

\* the outbound requests awaiting their response
InFlight ==
    (IF pc = "api" THEN 1 ELSE 0)
    + Cardinality({i \in 1..Len(fetch_log) : fetch_log[i].outcome = "pending"})

\* C15: at most one outbound request is in flight at any time, and the API
\* request of the next page is sent only after every record of the page before
\* it went through _process_job and every fallback request for them was answered.
C15_StrictlySequential ==
    /\ [](InFlight <= 1)
    /\ [](InFlight = 1 <=> pc \in {"api", "tierB", "tierC"})
    /\ [][ /\ LaterApiRequest
               => /\ InFlight = 0
                  /\ last_page.done = last_page.results
                  /\ jobs = 0
           /\ (pc = "records" /\ pc' \in {"loop", "returned"})
               => (InFlight = 0 /\ last_page.done = last_page.results) ]_vars

C15_Witness ==
    /\ pc = "api"
    /\ Len(api_log) = 2
    /\ last_page.results = 2
    /\ last_page.done = 2
    /\ lookups = 2

Target == scraper_input.results_wanted + scraper_input.offset

\* C16: an API request is sent only while seen_urls holds fewer than
\* results_wanted + offset URLs; a scrape on an instance whose seen_urls already
\* holds that many sends no API request and returns the empty list.
C16_RequestOnlyBelowTarget ==
    /\ [](pc = "api" => Cardinality(seen_urls) < Target)
    /\ [][ /\ Len(api_log') > Len(api_log) => Cardinality(seen_urls) < Target
           /\ (pc = "loop" /\ Cardinality(seen_urls) >= Target)
               => (pc' = "returned" /\ api_log' = api_log)
           /\ (pc = "loop" /\ api_log = <<>> /\ Cardinality(seen_urls) >= Target)
               => result' = <<>> ]_vars

C16_Witness ==
    /\ scrapes = 2
    /\ pc = "returned"
    /\ api_log = <<>>
    /\ result = <<>>
    /\ Cardinality(seen_urls) = 2
    /\ Target = 2

\* C17: with hours_old unset (None, or 0 which line 160 treats alike) the first
\* match wins: easy_apply set gives the indeedApplyScope filter with the key
\* DESKTOP and nothing else; otherwise job_type or is_remote set gives one
\* composite attributes filter whose keys are the job-type code followed by the
\* remote code, each present only if set; with none set the fragment is empty.
C17_FirstMatchWins ==
    (pc = "filters" /\ scraper_input.hours_old \in {<<>>, <<0>>})
        => LET c == scraper_input
               jobTypeCode == IF c.job_type = "None" THEN <<>>
                              ELSE <<JobTypeKey(c.job_type)>>
               remoteCode == IF c.is_remote = "True" THEN <<"DSQF7">> ELSE <<>>
           IN  IF c.easy_apply = "True"
               THEN result = [form |-> "keyword", field |-> "indeedApplyScope",
                              start |-> <<>>, keys |-> <<"DESKTOP">>]
               ELSE IF c.job_type # "None" \/ c.is_remote = "True"
               THEN result = [form |-> "composite", field |-> "attributes",
                              start |-> <<>>, keys |-> jobTypeCode \o remoteCode]
               ELSE result = [form |-> "", field |-> "", start |-> <<>>,
                              keys |-> <<>>]

C17_Witness ==
    /\ pc = "filters"
    /\ scraper_input.hours_old = <<>>
    /\ scraper_input.easy_apply = "False"
    /\ scraper_input.job_type = "PART_TIME"
    /\ scraper_input.is_remote = "True"
    /\ result.keys = <<"75GKK", "DSQF7">>

\* C18: a page after which the loop goes on has added at least one URL to
\* seen_urls since its request was sent, so a scrape sends at most one request
\* more than the URLs it added; and, every request being answered, every scrape
\* call ends (returns or raises), whatever cursors and pages the provider gives.
C18_LoopTerminates ==
    /\ [][(pc \in {"api", "records"} /\ pc' = "loop")
            => Cardinality(seen_urls') > last_page'.seen]_vars
    /\ [](Running => Len(api_log) <= Cardinality(seen_urls) + 1)
    /\ [](Len(api_log) <= Cardinality(AllUrls) + 1)
    /\ (Running ~> ~Running)

C18_Witness ==
    /\ pc = "returned"
    /\ api_log = <<"", "c1">>
    /\ last_page.ok
    /\ last_page.seen = 1
    /\ last_page.new = 1
    /\ last_page.next = "c1"
    /\ Cardinality(seen_urls) = 2

\* C19: the first scrape of an instance returns fewer than results_wanted
\* postings only when the last page gave no new posting (an empty page, a page
\* of records already seen, or a non-ok response); when it returns with
\* results_wanted + offset URLs reached, the list has exactly results_wanted
\* postings, also when the last page went past the target.
C19_ShortOnlyAfterEmptyPage ==
    (pc = "returned" /\ scrapes = 1)
        => /\ Len(result) < scraper_input.results_wanted
                => (api_log # <<>> /\ last_page.new = 0)
           /\ Cardinality(seen_urls) >= Target
                => (Len(result) = scraper_input.results_wanted /\ last_page.new > 0)

C19_Witness ==
    /\ pc = "returned"
    /\ scrapes = 1
    /\ scraper_input.results_wanted = 1
    /\ scraper_input.offset = 0
    /\ Len(api_log) = 1
    /\ last_page.new = 2
    /\ Len(arrived) = 2
    /\ result = <<arrived[1]>>

====
